---- MODULE Spec2Model ----
(***************************************************************************)
(* Model of the inventory HTTP service in src/main.js.                     *)
(*                                                                         *)
(* Every route handler is an async function.  A handler runs without       *)
(* interruption up to its next `await pool.execute(...)`; the statement it *)
(* awaits and the code that follows it up to the next await (or up to the  *)
(* response) form one atomic step.  Requests in flight occupy connection   *)
(* slots and their steps interleave freely.  A slot keeps the response of  *)
(* the request it served last until the next request arrives on it.        *)
(*                                                                         *)
(* The inventory table is a function from the ids of the rows present to   *)
(* the rows.  The cache directory is a function from the names of the      *)
(* files present to their bytes.                                           *)
(*                                                                         *)
(* The driver is mysql2 with its default connection flags, under which     *)
(* affectedRows of an UPDATE counts the rows matched by the WHERE clause.  *)
(***************************************************************************)
EXTENDS Integers, Sequences, FiniteSets, TLC

\* Bounds of the model.
MaxRequests == 3        \* requests received in one behaviour
NumSlots == 2           \* requests that may be in flight at the same time

Slots == 1..NumSlots

\* JavaScript / SQL values.
undefined == "undefined"            \* a body field that was not sent
null == 0                           \* SQL NULL in the photo column
Truthy(v) == v # undefined /\ v # ""

Body(n, d) == [name |-> n, description |-> d]

\* The bodies sent to POST /register: without a name, with an empty name,
\* with a name and no, an empty or a given description.
RegisterBodies ==
    {Body(undefined, "d1"), Body("", undefined),
     Body("n1", undefined), Body("n1", ""), Body("n1", "d1"), Body("n2", "d2")}

\* The bodies sent to PUT /inventory/:id: no field, empty fields, only a
\* description, an empty name, only a name, both fields.
PutBodies ==
    {Body(undefined, undefined), Body("", ""),
     Body(undefined, "d2"), Body("", "d1"), Body("n2", undefined),
     Body("n1", "d1"), Body("n2", "d2")}

NoUpload == "none"                  \* the request carries no photo part
RegisterUploads == {NoUpload, "B1"}
PhotoUploads == {NoUpload, "B1", "B2"}

Ids == 1..MaxRequests               \* the UUIDs randomUUID can return
BadId == 0                          \* an id the server never issued
MissingId == -1                     \* POST /search without an id field
Filenames == 1..MaxRequests         \* the names multer can generate

\* rows[0] of an empty result set.
undefinedItem == [id |-> MissingId, name |-> undefined,
                  description |-> undefined, photo |-> null]

VARIABLES
    db,         \* table inventory: id -> [id, name, description, photo]
    files,      \* CACHE_DIR: filename -> bytes
    unlinks,    \* fs.unlink calls issued and not yet run
    uuidCount,  \* number of UUIDs drawn from randomUUID
    fileCount,  \* number of filenames generated by multer
    req,        \* slot -> the request in flight on it, or its last response
    received,   \* number of requests received so far
    issued,     \* history: the ids returned in 201 responses, in order
    settled,    \* history: id -> the last successful writing request on it
                \*   that ran with no other writer on the id, until the next
                \*   writing request on the id arrives
    deleted,    \* history: the DELETEs answered 200
    writes      \* history: id -> the bodies written to the row, in the
                \*   order of the INSERT and UPDATE statements

vars == <<db, files, unlinks, uuidCount, fileCount, req, received,
          issued, settled, deleted, writes>>

Idle == [op |-> "none", pc |-> "idle", id |-> BadId,
         name |-> undefined, description |-> undefined,
         upload |-> NoUpload, file |-> null, includePhoto |-> FALSE,
         item |-> undefinedItem,
         status |-> 0, message |-> "", resItem |-> undefinedItem,
         data |-> <<>>, rows |-> {},
         alone |-> FALSE, failed |-> FALSE]

Writers == {"register", "put", "putPhoto", "delete"}
InFlight(s) == req[s].pc \notin {"idle", "done", "unanswered"}
Free(s) == ~InFlight(s)

\* Ids a client can name: the ones the server handed out, and a wrong one.
TargetIds == {BadId} \cup (1..uuidCount)

(***************************************************************************)
(* SQL statements on the inventory table                                   *)
(***************************************************************************)
SqlSelect(table, id) == IF id \in DOMAIN table THEN <<table[id]>> ELSE <<>>

SqlSelectAll(table) == {table[i] : i \in DOMAIN table}

SqlInsert(table, row) ==
    [i \in DOMAIN table \cup {row.id} |-> IF i = row.id THEN row ELSE table[i]]

SqlAffected(table, id) == IF id \in DOMAIN table THEN 1 ELSE 0

\* Variant: a field is written whenever it was sent, even when empty.
SqlUpdate_defined(table, id, name, description) ==
    [i \in DOMAIN table |->
        IF i # id THEN table[i]
        ELSE [table[i] EXCEPT
                !.name = IF name # undefined THEN name ELSE @,
                !.description = IF description # undefined THEN description ELSE @]]

\* Variant: only the first of the fields sent is written.
SqlUpdate_first(table, id, name, description) ==
    [i \in DOMAIN table |->
        IF i # id THEN table[i]
        ELSE IF Truthy(name) THEN [table[i] EXCEPT !.name = name]
        ELSE IF Truthy(description) THEN [table[i] EXCEPT !.description = description]
        ELSE table[i]]

\* UPDATE inventory SET <the truthy fields> WHERE id = ?
SqlUpdate(table, id, name, description) ==
    [i \in DOMAIN table |->
        IF i # id THEN table[i]
        ELSE [table[i] EXCEPT
                !.name = IF Truthy(name) THEN name ELSE @,
                !.description = IF Truthy(description) THEN description ELSE @]]

\* Variant: the photo is set only while the row has none.
SqlUpdatePhoto_keep(table, id, filename) ==
    [i \in DOMAIN table |->
        IF i # id \/ table[i].photo # null THEN table[i]
        ELSE [table[i] EXCEPT !.photo = filename]]

\* UPDATE inventory SET photo = ? WHERE id = ?
SqlUpdatePhoto(table, id, filename) ==
    [i \in DOMAIN table |->
        IF i # id THEN table[i] ELSE [table[i] EXCEPT !.photo = filename]]

\* Variant: the row is kept.
SqlDelete_none(table, id) == table

\* DELETE FROM inventory WHERE id = ?
SqlDelete(table, id) == [i \in DOMAIN table \ {id} |-> table[i]]

First(rows) == IF Len(rows) = 0 THEN undefinedItem ELSE rows[1]

(***************************************************************************)
(* Generators and the cache directory                                      *)
(***************************************************************************)
\* Variant: the lowest id that no row of the table has.
randomUUID_reused ==
    CHOOSE i \in Ids \ DOMAIN db : \A j \in Ids \ DOMAIN db : i <= j

\* crypto.randomUUID(): a value never returned before.
randomUUID == uuidCount + 1

\* multer({dest}) names each stored upload with fresh random hex.
multerFilename == fileCount + 1

existsSync(f) == f \in DOMAIN files

WriteFile(dir, f, bytes) ==
    [g \in DOMAIN dir \cup {f} |-> IF g = f THEN bytes ELSE dir[g]]

RemoveFile(dir, f) == [g \in DOMAIN dir \ {f} |-> dir[g]]

\* upload.single('photo'): stores the photo part, if any, before the handler.
Multer(upload) ==
    IF upload = NoUpload
    THEN /\ UNCHANGED <<files, fileCount>>
    ELSE /\ files' = WriteFile(files, multerFilename, upload)
         /\ fileCount' = fileCount + 1

reqFile(upload) == IF upload = NoUpload THEN null ELSE multerFilename

(***************************************************************************)
(* Bookkeeping shared by the handlers                                      *)
(***************************************************************************)
OtherWriters(s, id) ==
    {t \in Slots \ {s} : InFlight(t) /\ req[t].op \in Writers /\ req[t].id = id}

\* A request arrives on slot s, the lowest slot that is free (slots are
\* interchangeable).  A writing request on id ends the quiet period of id
\* and of every writer in flight on it.
Arrive(s, r) ==
    /\ Free(s)
    /\ \A t \in Slots : t < s => InFlight(t)
    /\ received < MaxRequests
    /\ received' = received + 1
    /\ LET writing == r.op \in Writers /\ r.pc # "done" IN
       /\ req' = [t \in Slots |->
                    IF t = s
                    THEN [r EXCEPT !.alone = writing /\ OtherWriters(s, r.id) = {}]
                    ELSE IF writing /\ t \in OtherWriters(s, r.id)
                         THEN [req[t] EXCEPT !.alone = FALSE]
                         ELSE req[t]]
       /\ settled' = IF writing /\ r.id \in Ids
                     THEN [settled EXCEPT ![r.id] = Idle]
                     ELSE settled

\* Slot s takes a step to the record r; a writer that answers with success
\* and ran alone settles its id.
Step(s, r) ==
    /\ req' = [req EXCEPT ![s] = r]
    /\ settled' = IF /\ r.pc = "done" /\ r.op \in Writers /\ r.alone
                     /\ r.status \in {200, 201} /\ r.id \in Ids
                  THEN [settled EXCEPT ![r.id] = r]
                  ELSE settled
    /\ issued' = IF r.pc = "done" /\ r.op = "register" /\ r.status = 201
                 THEN Append(issued, r.id) ELSE issued
    /\ deleted' = IF r.pc = "done" /\ r.op = "delete" /\ r.status = 200
                  THEN deleted \cup
                       {[id |-> r.id, alone |-> r.alone,
                         \* the photo of the row when it was removed
                         photo |-> IF r.id \in DOMAIN db
                                   THEN db[r.id].photo ELSE null,
                         \* the photo the handler's SELECT had read
                         read |-> r.item.photo]}
                  ELSE deleted
    /\ UNCHANGED received

\* res.status(status).json(...) ends the request.
Answer(r, status, message) ==
    [r EXCEPT !.pc = "done", !.status = status, !.message = message]

At(s, op, pc) == req[s].op = op /\ req[s].pc = pc

\* catch (error) { res.status(500).json({error: "Internal Server Error"}) }
Catch(s) ==
    /\ Step(s, [Answer(req[s], 500, "Internal Server Error") EXCEPT !.failed = TRUE])
    /\ UNCHANGED <<db, files, unlinks, uuidCount, fileCount, writes>>

Init ==
    /\ db = [i \in {} |-> undefinedItem]
    /\ files = [f \in {} |-> ""]
    /\ unlinks = {}
    /\ uuidCount = 0
    /\ fileCount = 0
    /\ req = [s \in Slots |-> Idle]
    /\ received = 0
    /\ issued = <<>>
    /\ settled = [i \in Ids |-> Idle]
    /\ deleted = {}
    /\ writes = [i \in Ids |-> <<>>]

(***************************************************************************)
(* POST /register                                                          *)
(***************************************************************************)
\* Variant: only an absent name is rejected.
nameMissing_absent(inventory_name) == inventory_name = undefined

\* if (!inventory_name)
nameMissing(inventory_name) == ~Truthy(inventory_name)

RecvRegister(s, name, description, upload) ==
    /\ Multer(upload)
    /\ LET r == [Idle EXCEPT !.op = "register", !.name = name,
                             !.description = description,
                             !.upload = upload, !.file = reqFile(upload)] IN
       IF nameMissing(name)
       THEN /\ Arrive(s, Answer(r, 400, "(400) inventory_name is required"))
            /\ UNCHANGED uuidCount
       ELSE /\ Arrive(s, [r EXCEPT !.pc = "insert", !.id = randomUUID])
            /\ uuidCount' = uuidCount + 1
    /\ UNCHANGED <<db, unlinks, issued, deleted, writes>>

RegisterInsert(s) ==
    /\ At(s, "register", "insert")
    /\ db' = SqlInsert(db, [id |-> req[s].id, name |-> req[s].name,
                            description |-> IF Truthy(req[s].description)
                                            THEN req[s].description ELSE "",
                            photo |-> req[s].file])
    /\ Step(s, Answer(req[s], 201, "Created"))
    /\ writes' = [writes EXCEPT ![req[s].id] =
                    Append(@, Body(req[s].name, req[s].description))]
    /\ UNCHANGED <<files, unlinks, uuidCount, fileCount>>

RegisterCatch(s) == At(s, "register", "insert") /\ Catch(s)

(***************************************************************************)
(* GET /inventory                                                          *)
(***************************************************************************)
RecvList(s) ==
    /\ Arrive(s, [Idle EXCEPT !.op = "list", !.pc = "select"])
    /\ UNCHANGED <<db, files, unlinks, uuidCount, fileCount, issued, deleted, writes>>

ListSelect(s) ==
    /\ At(s, "list", "select")
    /\ Step(s, [Answer(req[s], 200, "") EXCEPT !.rows = SqlSelectAll(db)])
    /\ UNCHANGED <<db, files, unlinks, uuidCount, fileCount, writes>>

ListCatch(s) == At(s, "list", "select") /\ Catch(s)

(***************************************************************************)
(* GET /inventory/:id                                                      *)
(***************************************************************************)
RecvGet(s, id) ==
    /\ Arrive(s, [Idle EXCEPT !.op = "get", !.pc = "select", !.id = id])
    /\ UNCHANGED <<db, files, unlinks, uuidCount, fileCount, issued, deleted, writes>>

GetSelect(s) ==
    /\ At(s, "get", "select")
    /\ LET rows == SqlSelect(db, req[s].id) IN
       IF Len(rows) = 0
       THEN Step(s, Answer(req[s], 404, "Not found"))
       ELSE Step(s, [Answer(req[s], 200, "") EXCEPT !.resItem = rows[1]])
    /\ UNCHANGED <<db, files, unlinks, uuidCount, fileCount, writes>>

GetCatch(s) == At(s, "get", "select") /\ Catch(s)

(***************************************************************************)
(* PUT /inventory/:id                                                      *)
(***************************************************************************)
RecvPut(s, id, name, description) ==
    /\ Arrive(s, [Idle EXCEPT !.op = "put", !.id = id, !.name = name,
                              !.description = description,
                              !.pc = IF Truthy(name) \/ Truthy(description)
                                     THEN "update" ELSE "selectNoChange"])
    /\ UNCHANGED <<db, files, unlinks, uuidCount, fileCount, issued, deleted, writes>>

\* updateFields.length === 0: the SELECT of line 215 and its response.
PutNoChange(s) ==
    /\ At(s, "put", "selectNoChange")
    /\ LET rows == SqlSelect(db, req[s].id) IN
       IF Len(rows) = 0
       THEN Step(s, Answer(req[s], 404, "Not found"))
       ELSE Step(s, [Answer(req[s], 200, "No changes requested")
                        EXCEPT !.resItem = rows[1]])
    /\ UNCHANGED <<db, files, unlinks, uuidCount, fileCount, writes>>

\* The SELECT of line 215 is outside the handler's try block.  When it
\* rejects, the async handler's promise rejects: Express 5 passes the error
\* to its default error handler, which answers 500; Express 4 ignores the
\* promise and the request is never answered.
PutNoChangeReject(s) ==
    /\ At(s, "put", "selectNoChange")
    /\ \E express5 \in BOOLEAN :
         Step(s, IF express5
                 THEN [Answer(req[s], 500, "Internal Server Error")
                          EXCEPT !.failed = TRUE]
                 ELSE [req[s] EXCEPT !.pc = "unanswered", !.failed = TRUE])
    /\ UNCHANGED <<db, files, unlinks, uuidCount, fileCount, writes>>

PutUpdate(s) ==
    /\ At(s, "put", "update")
    /\ db' = SqlUpdate(db, req[s].id, req[s].name, req[s].description)
    /\ Step(s, [req[s] EXCEPT !.pc = IF SqlAffected(db, req[s].id) = 0
                                      THEN "check" ELSE "reselect"])
    /\ writes' = IF req[s].id \in DOMAIN db
                 THEN [writes EXCEPT ![req[s].id] =
                         Append(@, Body(req[s].name, req[s].description))]
                 ELSE writes
    /\ UNCHANGED <<files, unlinks, uuidCount, fileCount>>

PutCheck(s) ==
    /\ At(s, "put", "check")
    /\ IF Len(SqlSelect(db, req[s].id)) = 0
       THEN Step(s, Answer(req[s], 404, "Not found"))
       ELSE Step(s, [req[s] EXCEPT !.pc = "reselect"])
    /\ UNCHANGED <<db, files, unlinks, uuidCount, fileCount, writes>>

PutReselect(s) ==
    /\ At(s, "put", "reselect")
    /\ Step(s, [Answer(req[s], 200, "Updated")
                    EXCEPT !.resItem = First(SqlSelect(db, req[s].id))])
    /\ UNCHANGED <<db, files, unlinks, uuidCount, fileCount, writes>>

PutCatch(s) ==
    /\ req[s].op = "put" /\ req[s].pc \in {"update", "check", "reselect"}
    /\ Catch(s)

(***************************************************************************)
(* GET /inventory/:id/photo                                                *)
(***************************************************************************)
RecvGetPhoto(s, id) ==
    /\ Arrive(s, [Idle EXCEPT !.op = "getPhoto", !.pc = "select", !.id = id])
    /\ UNCHANGED <<db, files, unlinks, uuidCount, fileCount, issued, deleted, writes>>

GetPhotoSelect(s) ==
    /\ At(s, "getPhoto", "select")
    /\ LET item == First(SqlSelect(db, req[s].id)) IN
       IF item = undefinedItem \/ item.photo = null
       THEN Step(s, Answer(req[s], 404, "Photo not found"))
       ELSE IF ~existsSync(item.photo)
       THEN Step(s, Answer(req[s], 404, "Photo file missing"))
       ELSE Step(s, [Answer(req[s], 200, "")
                        EXCEPT !.data = <<files[item.photo]>>])
    /\ UNCHANGED <<db, files, unlinks, uuidCount, fileCount, writes>>

GetPhotoCatch(s) == At(s, "getPhoto", "select") /\ Catch(s)

(***************************************************************************)
(* PUT /inventory/:id/photo                                                *)
(***************************************************************************)
RecvPutPhoto(s, id, upload) ==
    /\ Multer(upload)
    /\ LET r == [Idle EXCEPT !.op = "putPhoto", !.id = id,
                             !.upload = upload, !.file = reqFile(upload)] IN
       IF upload = NoUpload
       THEN Arrive(s, Answer(r, 400, "Photo file is required"))
       ELSE Arrive(s, [r EXCEPT !.pc = "update"])
    /\ UNCHANGED <<db, unlinks, uuidCount, issued, deleted, writes>>

PutPhotoUpdate(s) ==
    /\ At(s, "putPhoto", "update")
    /\ db' = SqlUpdatePhoto(db, req[s].id, req[s].file)
    /\ IF SqlAffected(db, req[s].id) = 0
       THEN Step(s, [req[s] EXCEPT !.pc = "check"])
       ELSE Step(s, Answer(req[s], 200, "Photo updated"))
    /\ UNCHANGED <<files, unlinks, uuidCount, fileCount, writes>>

PutPhotoCheck(s) ==
    /\ At(s, "putPhoto", "check")
    /\ IF Len(SqlSelect(db, req[s].id)) = 0
       THEN Step(s, Answer(req[s], 404, "Not found"))
       ELSE Step(s, Answer(req[s], 200, "Photo updated"))
    /\ UNCHANGED <<db, files, unlinks, uuidCount, fileCount, writes>>

PutPhotoCatch(s) ==
    /\ req[s].op = "putPhoto" /\ req[s].pc \in {"update", "check"}
    /\ Catch(s)

(***************************************************************************)
(* DELETE /inventory/:id                                                   *)
(***************************************************************************)
RecvDelete(s, id) ==
    /\ Arrive(s, [Idle EXCEPT !.op = "delete", !.pc = "select", !.id = id])
    /\ UNCHANGED <<db, files, unlinks, uuidCount, fileCount, issued, deleted, writes>>

DeleteSelect(s) ==
    /\ At(s, "delete", "select")
    /\ Step(s, [req[s] EXCEPT !.pc = "delete",
                              !.item = First(SqlSelect(db, req[s].id))])
    /\ UNCHANGED <<db, files, unlinks, uuidCount, fileCount, writes>>

\* Variant: no file is unlinked.
photoPath_none(s) == null

\* Variant: the photo of the row at the time of the DELETE statement.
photoPath_current(s) ==
    IF req[s].id \in DOMAIN db THEN db[req[s].id].photo ELSE null

\* The file the handler unlinks: the photo its SELECT read (line 382).
photoPath(s) == req[s].item.photo

DeleteExec(s) ==
    /\ At(s, "delete", "delete")
    /\ db' = SqlDelete(db, req[s].id)
    /\ IF SqlAffected(db, req[s].id) = 0
       THEN /\ Step(s, Answer(req[s], 404, "Not found"))
            /\ UNCHANGED unlinks
       ELSE /\ Step(s, Answer(req[s], 200, "Deleted"))
            /\ unlinks' = IF /\ req[s].item # undefinedItem
                             /\ photoPath(s) # null
                             /\ existsSync(photoPath(s))
                          THEN unlinks \cup {photoPath(s)}
                          ELSE unlinks
    /\ UNCHANGED <<files, uuidCount, fileCount, writes>>

DeleteCatch(s) ==
    /\ req[s].op = "delete" /\ req[s].pc \in {"select", "delete"}
    /\ Catch(s)

\* The fs.unlink issued by a delete handler runs on the thread pool.
Unlink(f) ==
    /\ f \in unlinks
    /\ unlinks' = unlinks \ {f}
    /\ files' = RemoveFile(files, f)
    /\ UNCHANGED <<db, uuidCount, fileCount, req, received,
                   issued, settled, deleted, writes>>

(***************************************************************************)
(* POST /search                                                            *)
(***************************************************************************)
RecvSearch(s, id, includePhoto) ==
    /\ LET r == [Idle EXCEPT !.op = "search", !.id = id,
                             !.includePhoto = includePhoto] IN
       IF id = MissingId
       THEN Arrive(s, Answer(r, 400, "ID parameter is required"))
       ELSE Arrive(s, [r EXCEPT !.pc = "select"])
    /\ UNCHANGED <<db, files, unlinks, uuidCount, fileCount, issued, deleted, writes>>

SearchSelect(s) ==
    /\ At(s, "search", "select")
    /\ LET item == First(SqlSelect(db, req[s].id)) IN
       IF item = undefinedItem
       THEN Step(s, Answer(req[s], 404, "Not Found"))
       ELSE Step(s, [Answer(req[s], 200, "") EXCEPT
                !.data = <<"Name", item.name, "Description", item.description>>
                         \o IF req[s].includePhoto THEN <<"Photo">> ELSE <<>>])
    /\ UNCHANGED <<db, files, unlinks, uuidCount, fileCount, writes>>

SearchCatch(s) == At(s, "search", "select") /\ Catch(s)

(***************************************************************************)
(* Specifications                                                          *)
(***************************************************************************)
\* The requests a client can send.
Receive(s) ==
    \/ \E b \in RegisterBodies, u \in RegisterUploads :
          RecvRegister(s, b.name, b.description, u)
    \/ RecvList(s)
    \/ \E id \in TargetIds : RecvGet(s, id)
    \/ \E id \in TargetIds, b \in PutBodies :
          RecvPut(s, id, b.name, b.description)
    \/ \E id \in TargetIds : RecvGetPhoto(s, id)
    \/ \E id \in TargetIds, u \in PhotoUploads : RecvPutPhoto(s, id, u)
    \/ \E id \in TargetIds : RecvDelete(s, id)
    \/ \E id \in TargetIds \cup {MissingId}, p \in BOOLEAN : RecvSearch(s, id, p)

\* The steps of the handlers when every database statement succeeds.
Handle(s) ==
    \/ RegisterInsert(s)
    \/ ListSelect(s)
    \/ GetSelect(s)
    \/ PutNoChange(s)
    \/ PutUpdate(s)
    \/ PutCheck(s)
    \/ PutReselect(s)
    \/ GetPhotoSelect(s)
    \/ PutPhotoUpdate(s)
    \/ PutPhotoCheck(s)
    \/ DeleteSelect(s)
    \/ DeleteExec(s)
    \/ SearchSelect(s)

\* The steps of the handlers when the awaited database statement fails.
Reject(s) ==
    \/ RegisterCatch(s)
    \/ ListCatch(s)
    \/ GetCatch(s)
    \/ PutNoChangeReject(s)
    \/ PutCatch(s)
    \/ GetPhotoCatch(s)
    \/ PutPhotoCatch(s)
    \/ DeleteCatch(s)
    \/ SearchCatch(s)

Next ==
    \/ \E s \in Slots : Receive(s)
    \/ \E s \in Slots : Handle(s)
    \/ \E f \in Filenames : Unlink(f)

\* The service with a database that executes every statement.
Spec == Init /\ [][Next]_vars

NextDbFail ==
    \/ Next
    \/ \E s \in Slots : Reject(s)

\* The service with a database whose statements may fail.
SpecDbFail == Init /\ [][NextDbFail]_vars

(***************************************************************************)
(* Properties                                                              *)
(***************************************************************************)
\* Slot s takes a step of its handler.
OwnStep(s) == InFlight(s) /\ req'[s].pc # req[s].pc

\* A request arrives on slot s.
Arrives(s) ==
    /\ received' = received + 1
    /\ Free(s)
    /\ \A t \in Slots : t < s => InFlight(t)

Stored(i) == Body(db[i].name, db[i].description)

\* The name and description a row has after the bodies of log were applied
\* one after the other: the first is the registration, the others are
\* updates, which replace the fields that are present and non-empty.
RECURSIVE Replay(_)
Replay(log) ==
    IF Len(log) = 1
    THEN Body(log[1].name,
              IF log[1].description = undefined THEN "" ELSE log[1].description)
    ELSE LET before == Replay(SubSeq(log, 1, Len(log) - 1))
             b == log[Len(log)]
         IN  Body(IF b.name \in {undefined, ""} THEN before.name ELSE b.name,
                  IF b.description \in {undefined, ""}
                  THEN before.description ELSE b.description)

C1_UniqueIds ==
    \A i, j \in 1..Len(issued) : i # j => issued[i] # issued[j]

C1_GetStep ==
    \A s \in Slots :
        /\ At(s, "get", "select") /\ OwnStep(s)
        /\ req[s].id \in Ids
        /\ settled[req[s].id].op = "register"
        => LET r == settled[req[s].id] IN
           /\ req'[s].status = 200
           /\ req'[s].resItem.id = r.id
           /\ req'[s].resItem.name = r.name
           /\ req'[s].resItem.description =
                 (IF r.description = undefined THEN "" ELSE r.description)
           /\ r.upload = NoUpload => req'[s].resItem.photo = null

\* C1: the id of every 201 response differs from every id issued before,
\* ids of deleted items included, and a GET of a registered item that no
\* writing request has touched since answers 200 with the submitted name,
\* the submitted description ("" when none was sent) and photo null when
\* no file was uploaded.
C1_RegisterThenGet == []C1_UniqueIds /\ [][C1_GetStep]_vars

C1_Witness ==
    \E s \in Slots :
        /\ req[s].op = "get" /\ req[s].pc = "done" /\ req[s].status = 200
        /\ req[s].id \in Ids
        /\ settled[req[s].id].op = "register"
        /\ settled[req[s].id].description = undefined
        /\ req[s].resItem.description = ""
        /\ req[s].resItem.photo = null
        /\ Len(issued) = 2

C2_Removed ==
    \A d \in deleted :
        d.alone /\ d.photo # null
        => d.photo \in unlinks \/ d.photo \notin DOMAIN files

C2_Step ==
    /\ \A s \in Slots :
          /\ req[s].op \in {"get", "getPhoto"} /\ OwnStep(s)
          /\ \E d \in deleted : d.alone /\ d.id = req[s].id
          => req'[s].status = 404
    /\ \A f \in unlinks : f \notin unlinks' => f \notin DOMAIN files'

\* C2: once a DELETE that ran with no other writer on its id has answered
\* 200, every GET and every GET photo of the id answers 404, and the file
\* the item referenced is waiting for the handler's unlink or is gone from
\* the cache directory; the unlink, when it runs, removes the file.
C2_DeleteThenGet == []C2_Removed /\ [][C2_Step]_vars

C2_Witness ==
    \E d \in deleted, s \in Slots :
        /\ d.alone /\ d.photo # null
        /\ d.photo \notin unlinks /\ d.photo \notin DOMAIN files
        /\ req[s].op \in {"get", "getPhoto"} /\ req[s].pc = "done"
        /\ req[s].id = d.id /\ req[s].status = 404

\* C3: a PUT /inventory/:id answered 200 carries an existing item record
\* with that id, whatever ran between its UPDATE and its re-SELECT.
C3_PutCarriesItem ==
    \A s \in Slots :
        req[s].op = "put" /\ req[s].pc = "done" /\ req[s].status = 200
        => req[s].resItem # undefinedItem /\ req[s].resItem.id = req[s].id

\* C4: a request whose database statement failed is answered 500.
C4_FailureAnswered500 ==
    \A s \in Slots :
        req[s].failed => req[s].pc = "done" /\ req[s].status = 500

C5_Step ==
    \A s \in Slots :
        req[s].op = "put" /\ OwnStep(s)
        => LET id == req[s].id IN
           /\ req[s].pc = "update"
              /\ ~Truthy(req[s].name) /\ Truthy(req[s].description)
              => /\ DOMAIN db' = DOMAIN db
                 /\ \A i \in DOMAIN db :
                       db'[i] = IF i = id
                                THEN [id |-> db[i].id, name |-> db[i].name,
                                      description |-> req[s].description,
                                      photo |-> db[i].photo]
                                ELSE db[i]
           /\ req[s].pc # "update" => db' = db
           /\ req[s].pc = "selectNoChange" /\ id \in DOMAIN db
              => /\ req'[s].status = 200
                 /\ req'[s].message = "No changes requested"
                 /\ req'[s].resItem = db[id]
           /\ req[s].pc = "reselect"
              => req'[s].status = 200 /\ req'[s].message = "Updated"
           /\ req[s].pc = "selectNoChange"
              <=> ~Truthy(req[s].name) /\ ~Truthy(req[s].description)

\* C5: a PUT with only a non-empty description replaces the description of
\* its row and nothing else in the table; a PUT with no field, or with both
\* empty, changes nothing in the table and answers 200 with the current
\* item and "No changes requested"; an effective update answers "Updated".
C5_PartialUpdate == [][C5_Step]_vars

C5_Witness ==
    \E s, t \in Slots :
        /\ req[s].op = "put" /\ req[s].pc = "done" /\ req[s].status = 200
        /\ req[s].name = undefined /\ req[s].description = "d2"
        /\ req[s].message = "Updated"
        /\ req[s].resItem.name = "n1" /\ req[s].resItem.description = "d2"
        /\ req[t].op = "put" /\ req[t].pc = "done" /\ req[t].status = 200
        /\ req[t].message = "No changes requested"
        /\ req[t].id = req[s].id

C6_Step ==
    \A s \in Slots :
        /\ At(s, "getPhoto", "select") /\ OwnStep(s)
        /\ req[s].id \in Ids
        /\ settled[req[s].id].op = "putPhoto"
        => /\ req'[s].status = 200
           /\ req'[s].data = <<settled[req[s].id].upload>>

\* C6: a GET photo of an item whose last writing request was a PUT photo
\* answered 200, with no writing request on the item since, answers 200
\* with the bytes that PUT uploaded.
C6_PhotoRoundTrip == [][C6_Step]_vars

C6_Witness ==
    \E s \in Slots :
        /\ req[s].op = "getPhoto" /\ req[s].pc = "done" /\ req[s].status = 200
        /\ req[s].id \in Ids
        /\ settled[req[s].id].op = "putPhoto"
        /\ req[s].data = <<"B2">>
        /\ \E f \in DOMAIN files : f # settled[req[s].id].file /\ files[f] = "B1"

C7_NamesNonEmpty ==
    \A i \in DOMAIN db : db[i].name # "" /\ db[i].name # undefined

C7_Step ==
    \A s \in Slots :
        /\ Arrives(s) /\ req'[s].op = "register"
           /\ req'[s].name \in {undefined, ""}
           => req'[s].pc = "done" /\ req'[s].status = 400 /\ db' = db
        /\ At(s, "put", "update") /\ OwnStep(s)
           /\ req[s].name = "" /\ req[s].id \in DOMAIN db
           => req[s].id \in DOMAIN db' /\ db'[req[s].id].name = db[req[s].id].name

\* C7: every stored item has a non-empty name; a registration without a
\* name or with an empty one is answered 400 at once and leaves the table
\* as it is; a PUT with an empty name leaves the stored name as it is.
C7_NameNeverEmpty == []C7_NamesNonEmpty /\ [][C7_Step]_vars

C7_Witness ==
    \E s, t \in Slots :
        /\ req[s].op = "register" /\ req[s].pc = "done" /\ req[s].status = 400
        /\ req[s].name = ""
        /\ req[t].op = "put" /\ req[t].pc = "done" /\ req[t].status = 200
        /\ req[t].name = "" /\ req[t].message = "Updated"
        /\ req[t].id \in DOMAIN db /\ db[req[t].id].name = "n1"

\* C8: every stored item with a photo references a file that is in the
\* cache directory.
C8_PhotoFileExists ==
    \A i \in DOMAIN db : db[i].photo # null => db[i].photo \in DOMAIN files

C8_Witness ==
    /\ \E i \in DOMAIN db : db[i].photo # null
    /\ \E d \in deleted : d.read # null /\ d.read \notin DOMAIN files
    /\ unlinks = {}

\* C9: when the photo of a row was replaced between a delete handler's
\* SELECT and its DELETE, the row is gone and the replacing PUT photo was
\* answered 200, but the file that PUT stored stays in the cache directory:
\* no unlink is issued for it and no item references it.
C9_OrphanedFile ==
    \A d \in deleted :
        d.photo # d.read
        => /\ d.id \notin DOMAIN db
           /\ d.photo \in DOMAIN files
           /\ d.photo \notin unlinks
           /\ \A i \in DOMAIN db : db[i].photo # d.photo
           /\ \A s \in Slots :
                 req[s].op = "putPhoto" /\ req[s].file = d.photo
                 => req[s].pc = "done" /\ req[s].status = 200

C9_Witness ==
    \E d \in deleted, s, t \in Slots :
        /\ d.read # null /\ d.photo # d.read
        /\ req[s].op = "delete" /\ req[s].pc = "done" /\ req[s].status = 200
        /\ req[s].id = d.id
        /\ req[t].op = "putPhoto" /\ req[t].pc = "done" /\ req[t].status = 200
        /\ req[t].id = d.id /\ req[t].file = d.photo
        /\ d.read \notin DOMAIN files
        /\ d.photo \in DOMAIN files

\* The two PUTs of slots s and t were in flight together on one item, sent
\* both fields each, and have both answered 200 "Updated".
BothUpdated(s, t) ==
    /\ s # t /\ req[s].id = req[t].id /\ req[s].id \in DOMAIN db
    /\ \A u \in {s, t} :
          /\ req[u].op = "put" /\ req[u].pc = "done" /\ req[u].status = 200
          /\ req[u].message = "Updated" /\ ~req[u].alone
          /\ Truthy(req[u].name) /\ Truthy(req[u].description)
    /\ req[s].name # req[t].name /\ req[s].description # req[t].description

\* C10 as stated: two interleaved PUTs that both answered 200 "Updated"
\* leave a name/description that neither order of the two produces.
C10_LostUpdate ==
    \A s, t \in Slots :
        BothUpdated(s, t)
        => Stored(req[s].id) \notin
              {Body(req[s].name, req[s].description),
               Body(req[t].name, req[t].description)}

\* C10 amended: the stored name and description of every item are those of
\* running its registration and its PUTs one after the other, in the order
\* of their INSERT and UPDATE statements.
C10_Serializable ==
    \A i \in DOMAIN db : Stored(i) = Replay(writes[i])

C10_Witness ==
    \E s, t \in Slots :
        /\ BothUpdated(s, t)
        /\ req[s].resItem = req[t].resItem
        /\ req[s].resItem.name # req[s].name

====
